---------------------------- MODULE Spec2Model ----------------------------
(***************************************************************************)
(* Error norms, collective reductions and convergence rates of the         *)
(* chapter 3 / chapter 4 notebooks (convergence.ipynb, complex Poisson,    *)
(* multiple_dirichlet.ipynb).                                              *)
(*                                                                         *)
(* Arithmetic is exact.  Degree-of-freedom values are integers.  A         *)
(* non-negative real v produced by np.sqrt, np.abs or 1./N is the record   *)
(*     [kind |-> "pos", mn, md, x]   with  v^2 = (mn/md) * 2^x,            *)
(* mn and md odd and coprime; "zero", "inf" and "nan" are the other float  *)
(* values a division can produce.  Rounding is not modelled.               *)
(***************************************************************************)
EXTENDS Integers, Sequences, FiniteSets

(***************************************************************************)
(* Bounds of the model.                                                    *)
(***************************************************************************)
\* number of cooperating MPI processes (ranks 0 .. NProcs-1)
NProcs == 2
\* degree-of-freedom values of u_h and of the interpolated exact solution
\* range over 0 .. MaxVal
MaxVal == 1
\* number of leading entries of Ns a sweep runs over
NumN == 2
NumWindings == 2

(***************************************************************************)
(* Program constants.                                                      *)
(***************************************************************************)
Ns == <<4, 8, 16, 32, 64>>
degrees == <<1, 2, 3, 4>>

Procs == 0 .. (NProcs - 1)

(***************************************************************************)
(* Integer helpers.                                                        *)
(***************************************************************************)
RECURSIVE GCD(_, _)
GCD(a, b) == IF b = 0 THEN a ELSE GCD(b, a % b)

RECURSIVE TwoAdic(_)
TwoAdic(n) == IF n % 2 = 0 THEN 1 + TwoAdic(n \div 2) ELSE 0

OddPart(n) == n \div (2 ^ TwoAdic(n))

AbsInt(d) == IF d < 0 THEN 0 - d ELSE d

MaxOfSet(S) == CHOOSE m \in S : \A y \in S : y <= m

RECURSIVE SumOfSet(_, _)
SumOfSet(f, S) ==
    IF S = {} THEN 0
    ELSE LET d == CHOOSE e \in S : TRUE
         IN f[d] + SumOfSet(f, S \ {d})

(***************************************************************************)
(* Non-negative floats.                                                    *)
(***************************************************************************)
Zero == [kind |-> "zero", mn |-> 0, md |-> 1, x |-> 0]
PosInf == [kind |-> "inf", mn |-> 0, md |-> 1, x |-> 0]
NaN == [kind |-> "nan", mn |-> 0, md |-> 1, x |-> 0]

\* the positive real whose square is (mn/md) * 2^x, mn and md odd
Pos(mn, md, x) ==
    LET g == GCD(mn, md)
    IN [kind |-> "pos", mn |-> mn \div g, md |-> md \div g, x |-> x]

\* np.sqrt of a non-negative integer
Sqrt(s) == IF s = 0 THEN Zero ELSE Pos(OddPart(s), 1, TwoAdic(s))

\* a non-negative integer stored into a float array
AsScalar(n) == Sqrt(n * n)

\* 1. / N
OneOver(N) == Pos(1, OddPart(N * N), 0 - TwoAdic(N * N))

\* a / b on non-negative floats, as numpy divides (x/0 = inf, 0/0 = nan)
Div(a, b) ==
    IF a.kind = "nan" \/ b.kind = "nan" THEN NaN
    ELSE IF b.kind = "zero"
         THEN (IF a.kind = "zero" THEN NaN ELSE PosInf)
    ELSE IF b.kind = "inf"
         THEN (IF a.kind = "inf" THEN NaN ELSE Zero)
    ELSE IF a.kind = "zero" THEN Zero
    ELSE IF a.kind = "inf" THEN PosInf
    ELSE Pos(a.mn * b.md, a.md * b.mn, a.x - b.x)

(***************************************************************************)
(* Logarithms.  [kind |-> "fin", mn, md, x] is (1/2) ln((mn/md) * 2^x).    *)
(***************************************************************************)
LogOne == [kind |-> "fin", mn |-> 1, md |-> 1, x |-> 0]

\* np.log: ln 0 = -inf, ln inf = inf
Log(v) ==
    IF v.kind = "zero" THEN [LogOne EXCEPT !.kind = "ninf"]
    ELSE IF v.kind = "inf" THEN [LogOne EXCEPT !.kind = "inf"]
    ELSE IF v.kind = "nan" THEN [LogOne EXCEPT !.kind = "nan"]
    ELSE [kind |-> "fin", mn |-> v.mn, md |-> v.md, x |-> v.x]

\* the sign (-1, 0, 1) of a logarithm that is not nan
LogSign(l) ==
    IF l.kind = "inf" THEN 1
    ELSE IF l.kind = "ninf" THEN -1
    ELSE LET lhs == IF l.x >= 0 THEN l.mn * (2 ^ l.x) ELSE l.mn
             rhs == IF l.x >= 0 THEN l.md ELSE l.md * (2 ^ (0 - l.x))
         IN IF lhs > rhs THEN 1 ELSE IF lhs < rhs THEN -1 ELSE 0

(***************************************************************************)
(* Rates: the quotient of two logarithms.                                  *)
(*   "rat"  : num/den, reduced, den > 0                                    *)
(*   "quot" : the finite quotient la / lb, left as it is                   *)
(*   "inf", "ninf", "nan"                                                  *)
(***************************************************************************)
Rat(n, d) ==
    LET g == GCD(AbsInt(n), AbsInt(d))
        s == IF d < 0 THEN -1 ELSE 1
    IN [kind |-> "rat", num |-> (s * n) \div g, den |-> (s * d) \div g,
        la |-> LogOne, lb |-> LogOne]

Special(k) == [kind |-> k, num |-> 0, den |-> 1, la |-> LogOne, lb |-> LogOne]

\* la / lb on logarithms, as numpy divides
LogDiv(la, lb) ==
    IF la.kind = "nan" \/ lb.kind = "nan" THEN Special("nan")
    ELSE IF la.kind \in {"inf", "ninf"}
         THEN (IF lb.kind \in {"inf", "ninf"} THEN Special("nan")
               ELSE IF LogSign(la) * LogSign(lb) < 0 THEN Special("ninf")
               ELSE Special("inf"))
    ELSE IF lb.kind \in {"inf", "ninf"} THEN Rat(0, 1)
    ELSE IF LogSign(lb) = 0
         THEN (IF LogSign(la) = 0 THEN Special("nan")
               ELSE IF LogSign(la) > 0 THEN Special("inf")
               ELSE Special("ninf"))
    ELSE IF LogSign(la) = 0 THEN Rat(0, 1)
    ELSE IF la.mn = 1 /\ la.md = 1 /\ lb.mn = 1 /\ lb.md = 1
         THEN Rat(la.x, lb.x)
    ELSE [kind |-> "quot", num |-> 0, den |-> 1, la |-> la, lb |-> lb]

(***************************************************************************)
(* numpy slices and elementwise operations.                                *)
(***************************************************************************)
\* a[2:]: the slice starts one entry late
DropFirstTwo(a) == IF Len(a) <= 1 THEN <<>> ELSE SubSeq(a, 3, Len(a))

\* a[1:]
DropFirst(a) == IF Len(a) = 0 THEN <<>> ELSE SubSeq(a, 2, Len(a))

\* a[:-1]
DropLast(a) == IF Len(a) = 0 THEN <<>> ELSE SubSeq(a, 1, Len(a) - 1)

\* a / b on arrays of equal length
ElemDiv(a, b) == [k \in 1 .. Len(a) |-> Div(a[k], b[k])]

ElemLog(a) == [k \in 1 .. Len(a) |-> Log(a[k])]

ElemLogDiv(a, b) == [k \in 1 .. Len(a) |-> LogDiv(a[k], b[k])]

\* np.log(Es[:-1] / Es[1:]) / np.log(hs[1:] / hs[:-1]): the error ratio inverted
RatesInverted(E, h) ==
    ElemLogDiv(ElemLog(ElemDiv(DropLast(E), DropFirst(E))),
               ElemLog(ElemDiv(DropFirst(h), DropLast(h))))

\* rates = np.log(Es[1:] / Es[:-1]) / np.log(hs[1:] / hs[:-1])
Rates(E, h) ==
    ElemLogDiv(ElemLog(ElemDiv(DropFirst(E), DropLast(E))),
               ElemLog(ElemDiv(DropFirst(h), DropLast(h))))


(***************************************************************************)
(* State.                                                                  *)
(*   owner, ghost : the partition of the mesh: owner[d] is the rank that   *)
(*                  owns cell/dof d, ghost[p] the dofs rank p holds as     *)
(*                  ghosts (copies of dofs owned by another rank)          *)
(*   uh, uex      : dof values of u_h and of the interpolated exact        *)
(*                  solution (one global array; a rank sees its local part)*)
(*   cell         : the notebook cell being run                            *)
(*   pc, deg, idx : per rank: position, index into the degree list, number *)
(*                  of samples recorded for the current degree             *)
(*   Es, hs, rates: per rank: the sample arrays and the last rates         *)
(*   contrib      : local scalars handed to the current allreduce          *)
(*   printed      : per rank: the last line written to stdout              *)
(*   whole        : history: for the degree last solved, the error of each *)
(*                  resolution computed on the unpartitioned field         *)
(*   arg, ret     : inputs and result of a function applied on its own     *)
(*   log          : history, per rank: the solver calls, recorded samples   *)
(*                  and rate computations of the sweep, in program order    *)
(***************************************************************************)
VARIABLES owner, ghost, uh, uex, cell, pc, deg, idx, Es, hs, rates,
          contrib, printed, whole, arg, ret, log

vars == <<owner, ghost, uh, uex, cell, pc, deg, idx, Es, hs, rates,
          contrib, printed, whole, arg, ret, log>>

(***************************************************************************)
(* The distributed field.  The mesh has one dof per cell and cells of      *)
(* measure 1.                                                              *)
(***************************************************************************)
Dofs == DOMAIN owner

\* cells (and their dofs) owned by rank p
OwnedDofs(p) == {d \in Dofs : owner[d] = p}

\* x.array cut to its owned entries (x.array[:size_local])
OwnedEntriesOnly(p) == OwnedDofs(p)

\* the dofs x.array holds on rank p
LocalArrayDofs(p) == OwnedDofs(p) \cup ghost[p]

\* integration over ghost cells too: shared cells are counted twice
AssembledWithGhosts(p) == LocalArrayDofs(p)

\* the cells assemble_scalar integrates over on rank p
AssembledCells(p) == OwnedDofs(p)

\* u.x.array - v.x.array
ArrayDiff(u, v) == [d \in Dofs |-> u[d] - v[d]]

\* assemble_scalar(form(inner(e, e) * dx)) on rank p
AssembleLocal(p, e) ==
    SumOfSet([d \in Dofs |-> e[d] * e[d]], AssembledCells(p))

\* np.max(np.abs(a)) over the local array of rank p
LocalMaxAbs(p, a) == MaxOfSet({AbsInt(a[d]) : d \in LocalArrayDofs(p)})

(***************************************************************************)
(* comm.allreduce.                                                         *)
(***************************************************************************)
\* a reduction that returns as soon as some rank has contributed
SomeContributed(c) == DOMAIN c # {}

\* the call returns once every rank of the communicator has contributed
AllContributed(c) == DOMAIN c = Procs

\* the reduction of the contributions c with op
Reduce(c, op) ==
    IF op = "SUM" THEN SumOfSet(c, DOMAIN c)
    ELSE MaxOfSet({c[q] : q \in DOMAIN c})

\* no reduction: rank p keeps its local scalar
LocalOnly(p, c, op) == c[p]

\* the value allreduce returns on rank p
Allreduce(p, c, op) == Reduce(c, op)

\* mpi4py: allreduce(sendobj, op=SUM)
DefaultOp == "SUM"

(***************************************************************************)
(* The error computations, each on all ranks at once.                      *)
(***************************************************************************)
\* error_L2: the local contributions of the ranks
L2Locals(u, ue) == [p \in Procs |-> AssembleLocal(p, ArrayDiff(u, ue))]

error_L2(u, ue) == Sqrt(Allreduce(0, L2Locals(u, ue), "SUM"))

\* error_infinity: the local maxima of the ranks
InfLocals(u, ue) == [p \in Procs |-> LocalMaxAbs(p, ArrayDiff(u, ue))]

error_infinity(u, ue) == Allreduce(0, InfLocals(u, ue), "MAX")

\* complex Poisson: max_error = mesh.comm.allreduce(np.max(np.abs(u_c.x.array-uh.x.array)))
max_error(uc, u) == Allreduce(0, InfLocals(uc, u), DefaultOp)

\* multiple Dirichlet: error_max
error_max(u, ue) == Allreduce(0, InfLocals(u, ue), "MAX")

(***************************************************************************)
(* The sweeps of convergence.ipynb.                                        *)
(*   "single" : Ns loop at degree 1 with error_L2, then the rates cell     *)
(*   "L2"     : degree sweep with error_L2                                 *)
(*   "inf"    : degree sweep with error_infinity                           *)
(***************************************************************************)
Cells == {"single", "L2", "inf"}

SweepNs == SubSeq(Ns, 1, NumN)

CellDegrees(c) == IF c = "single" THEN <<1>> ELSE degrees

\* np.zeros(len(Ns))
Zeros == [k \in 1 .. Len(SweepNs) |-> Zero]

\* the partition create_unit_square hands out: rank p owns cell p + 1 and
\* holds the cell of the next rank as ghost
MeshOwner == [d \in 1 .. NProcs |-> d - 1]
MeshGhost == [p \in Procs |-> {((p + 1) % NProcs) + 1} \ {p + 1}]

\* u_numpy at the point of dof d
u_numpy(d) == d % 2

NoLine == [kind |-> "none", degree |-> 0, h |-> Zero, E |-> Zero, rates |-> <<>>]
SampleLine(h, E) == [NoLine EXCEPT !.kind = "sample", !.h = h, !.E = E]
RatesLine(d, r) == [NoLine EXCEPT !.kind = "rates", !.degree = d, !.rates = r]

\* if comm.rank == 0: print(...)
Stdout(p, line) == IF p = 0 THEN [printed EXCEPT ![p] = line] ELSE printed

\* the error of the current field computed on the unpartitioned whole
WholeL2(u, ue) ==
    Sqrt(SumOfSet([d \in DOMAIN u |-> (u[d] - ue[d]) * (u[d] - ue[d])], DOMAIN u))
WholeInf(u, ue) == MaxOfSet({AbsInt(u[d] - ue[d]) : d \in DOMAIN u})
WholeError(c, u, ue) ==
    IF c = "inf" THEN AsScalar(WholeInf(u, ue)) ELSE WholeL2(u, ue)

Idle == [fn |-> "none"]

InitSweep ==
    /\ cell \in Cells
    /\ owner = MeshOwner
    /\ ghost = MeshGhost
    /\ uh = [d \in 1 .. NProcs |-> 0]
    /\ uex = [d \in 1 .. NProcs |-> u_numpy(d)]
    /\ pc = [p \in Procs |-> "solve"]
    /\ deg = [p \in Procs |-> 1]
    /\ idx = [p \in Procs |-> 0]
    /\ Es = [p \in Procs |-> Zeros]
    /\ hs = [p \in Procs |-> Zeros]
    /\ rates = [p \in Procs |-> <<>>]
    /\ contrib = <<>>
    /\ printed = [p \in Procs |-> NoLine]
    /\ whole = [deg |-> 1, vals |-> <<>>]
    /\ arg = Idle
    /\ ret = Idle
    /\ log = [p \in Procs |-> <<>>]

\* a step of the sweep on rank p at its current (N, degree)
Event(op, p) ==
    [op |-> op,
     N |-> IF idx[p] < Len(SweepNs) THEN SweepNs[idx[p] + 1] ELSE 0,
     degree |-> CellDegrees(cell)[deg[p]]]

\* uh, u_ex = solve_poisson(N, degree): rank p enters the solver
CallSolve(p) ==
    /\ pc[p] = "solve"
    /\ pc' = [pc EXCEPT ![p] = "solving"]
    /\ log' = [log EXCEPT ![p] = Append(@, Event("solve", p))]
    /\ UNCHANGED <<owner, ghost, uh, uex, cell, deg, idx, Es, hs, rates,
                   contrib, printed, whole, arg, ret>>

\* the fields the solver may return: u_h equals the interpolated exact
\* solution outside a set of dofs and is off by one on it
SolverFields == {[d \in Dofs |-> uex[d] + (IF d \in off THEN 1 ELSE 0)] : off \in SUBSET Dofs}

\* the solver, collective over the communicator, returns some field
SolveComplete ==
    /\ \A p \in Procs : pc[p] = "solving"
    /\ \E u \in SolverFields :
          /\ uh' = u
          /\ whole' = [deg |-> deg[0],
                       vals |-> (IF idx[0] = 0 THEN <<>> ELSE whole.vals)
                                \o <<WholeError(cell, u, uex)>>]
    /\ pc' = [p \in Procs |-> "error"]
    /\ contrib' = <<>>
    /\ UNCHANGED <<owner, ghost, uex, cell, deg, idx, Es, hs, rates,
                   printed, arg, ret, log>>

\* a failure that is caught and the sweep taken up again at the rates
FailureSwallowed == "rates"

\* where an exception raised inside the loops leaves a rank: nothing catches
\* it, the cell is over
AfterFailure == "failed"

\* the solver raises (collectively, as the linear solve is collective)
SolveFail ==
    /\ \A p \in Procs : pc[p] = "solving"
    /\ pc' = [p \in Procs |-> AfterFailure]
    /\ log' = [p \in Procs |-> Append(log[p], Event("fail", p))]
    /\ UNCHANGED <<owner, ghost, uh, uex, cell, deg, idx, Es, hs, rates,
                   contrib, printed, whole, arg, ret>>

\* the local scalar of rank p
LocalScalar(p) ==
    IF cell = "inf" THEN LocalMaxAbs(p, ArrayDiff(uh, uex))
    ELSE AssembleLocal(p, ArrayDiff(uh, uex))

\* the reduction called inside the branch of rank 0
AllreduceOnRankZero(p) == p = 0

\* the allreduce is called on every rank: the call stands outside every
\* if comm.rank == 0
CallsAllreduce(p) == TRUE

\* error_L2 / error_infinity up to the allreduce call of rank p
ErrorLocal(p) ==
    /\ pc[p] = "error"
    /\ contrib' = IF CallsAllreduce(p)
                  THEN [q \in DOMAIN contrib \cup {p} |->
                           IF q = p THEN LocalScalar(p) ELSE contrib[q]]
                  ELSE contrib
    /\ pc' = [pc EXCEPT ![p] = "wait"]
    /\ UNCHANGED <<owner, ghost, uh, uex, cell, deg, idx, Es, hs, rates,
                   printed, whole, arg, ret, log>>

\* the value error_L2 / error_infinity returns on rank p
ErrorValue(p) ==
    LET reduced(op) == IF CallsAllreduce(p) THEN Allreduce(p, contrib, op)
                       ELSE LocalScalar(p)
    IN IF cell = "inf" THEN AsScalar(reduced("MAX")) ELSE Sqrt(reduced("SUM"))

\* a loop over Ns that leaves after its first iteration
LoopLeavesEarly(i) == "rates"

\* for i, N in enumerate(Ns): after iteration i (counted from 1) the loop
\* goes on to the next N, or is left for the rates
LoopNext(i) == IF i < Len(SweepNs) THEN "solve" ELSE "rates"

\* hs[i] = Ns[i]: the reciprocal forgotten
StepSizeNotInverted(i) == Pos(OddPart(SweepNs[i] * SweepNs[i]), 1, TwoAdic(SweepNs[i] * SweepNs[i]))

\* hs[i] = 1. / Ns[i], i counted from 1
StepSize(i) == OneOver(SweepNs[i])

\* every sample written to the first slot
SlotZero(i) == 1

\* Es[i], hs[i]: the slot of iteration i is slot i
Slot(i) == i

\* the allreduce returns on rank p; Es[i], hs[i] are stored and printed
ErrorReturn(p) ==
    /\ pc[p] = "wait"
    /\ CallsAllreduce(p) => AllContributed(contrib)
    /\ LET i == idx[p] + 1
           E == ErrorValue(p)
           h == StepSize(i)
       IN /\ Es' = [Es EXCEPT ![p][Slot(i)] = E]
          /\ hs' = [hs EXCEPT ![p][Slot(i)] = h]
          /\ printed' = Stdout(p, SampleLine(h, E))
          /\ idx' = [idx EXCEPT ![p] = i]
          /\ pc' = [pc EXCEPT ![p] = LoopNext(i)]
    /\ log' = [log EXCEPT ![p] = Append(@, Event("sample", p))]
    /\ UNCHANGED <<owner, ghost, uh, uex, cell, deg, rates, contrib, whole,
                   arg, ret>>

\* the arrays of the degree before, used again
SamplesKept(old) == old

\* Es = np.zeros(len(Ns)), hs = np.zeros(len(Ns)) at the top of the degree
\* loop: the name is bound to a new array, whatever it held
NewSamples(old) == Zeros

\* rates = ...; print; then the next degree with fresh Es, hs
ComputeRates(p) ==
    /\ pc[p] = "rates"
    /\ rates' = [rates EXCEPT ![p] = Rates(Es[p], hs[p])]
    /\ printed' = Stdout(p, RatesLine(CellDegrees(cell)[deg[p]], Rates(Es[p], hs[p])))
    /\ IF deg[p] < Len(CellDegrees(cell))
       THEN /\ deg' = [deg EXCEPT ![p] = deg[p] + 1]
            /\ idx' = [idx EXCEPT ![p] = 0]
            /\ Es' = [Es EXCEPT ![p] = NewSamples(@)]
            /\ hs' = [hs EXCEPT ![p] = NewSamples(@)]
            /\ pc' = [pc EXCEPT ![p] = "solve"]
       ELSE /\ pc' = [pc EXCEPT ![p] = "done"]
            /\ UNCHANGED <<deg, idx, Es, hs>>
    /\ log' = [log EXCEPT ![p] = Append(@, Event("rates", p))]
    /\ UNCHANGED <<owner, ghost, uh, uex, cell, contrib, whole, arg, ret>>

Next ==
    \/ \E p \in Procs : CallSolve(p)
    \/ SolveComplete
    \/ SolveFail
    \/ \E p \in Procs : ErrorLocal(p)
    \/ \E p \in Procs : ErrorReturn(p)
    \/ \E p \in Procs : ComputeRates(p)

Spec == InitSweep /\ [][Next]_vars

\* the steps of rank p
RankStep(p) == CallSolve(p) \/ ErrorLocal(p) \/ ErrorReturn(p) \/ ComputeRates(p)

\* every rank goes on running, and a solve all ranks have entered returns or
\* raises
SpecFair ==
    /\ InitSweep
    /\ [][Next]_vars
    /\ \A p \in Procs : WF_vars(RankStep(p))
    /\ WF_vars(SolveComplete \/ SolveFail)

(***************************************************************************)
(* The rate computation applied to arbitrary sample arrays.                *)
(***************************************************************************)
\* error samples handed in: sqrt(s), s in 0 .. MaxVal + 1
SampleEs == {Sqrt(s) : s \in 0 .. (MaxVal + 1)}

\* h samples handed in: 1/N for the N of the sweep and the next one
SampleHs == {OneOver(Ns[k]) : k \in 1 .. (NumN + 1)}

SampleLens == 2 .. (NumN + 1)

\* constants C (by their squares) and orders r of the power laws handed in
PowerLawC2 == 1 .. 4
PowerLawR == 0 .. 3

\* h^r for an integer r >= 0
NumPow(h, r) == Pos(h.mn ^ r, h.md ^ r, h.x * r)

\* a * b on positive floats
NumMul(a, b) == Pos(a.mn * b.mn, a.md * b.md, a.x + b.x)

\* C * h^r with C^2 = c2
PowerLawSample(c2, r, h) == NumMul(Sqrt(c2), NumPow(h, r))

\* a < b on floats that are zero or positive
NumLess(a, b) ==
    IF b.kind = "zero" THEN FALSE
    ELSE IF a.kind = "zero" THEN TRUE
    ELSE LogSign(Log(Div(a, b))) < 0

StrictlyDecreasing(h) == \A k \in 1 .. (Len(h) - 1) : NumLess(h[k + 1], h[k])

SweepIdle ==
    /\ cell = "single"
    /\ pc = [p \in Procs |-> "done"]
    /\ deg = [p \in Procs |-> 1]
    /\ idx = [p \in Procs |-> 0]
    /\ Es = [p \in Procs |-> Zeros]
    /\ hs = [p \in Procs |-> Zeros]
    /\ rates = [p \in Procs |-> <<>>]
    /\ contrib = <<>>
    /\ printed = [p \in Procs |-> NoLine]
    /\ whole = [deg |-> 1, vals |-> <<>>]
    /\ log = [p \in Procs |-> <<>>]

InitRates ==
    /\ SweepIdle
    /\ owner = MeshOwner
    /\ ghost = MeshGhost
    /\ uh = [d \in 1 .. NProcs |-> 0]
    /\ uex = [d \in 1 .. NProcs |-> 0]
    /\ ret = Idle
    /\ \E n \in SampleLens :
          \/ \E E \in [1 .. n -> SampleEs], h \in [1 .. n -> SampleHs] :
                arg = [fn |-> "rates", Es |-> E, hs |-> h]
          \/ \E c2 \in PowerLawC2, r \in PowerLawR, k \in 1 .. 2 :
                arg = [fn |-> "rates",
                       Es |-> [j \in 1 .. n |->
                                  PowerLawSample(c2, r, OneOver(Ns[j + k - 1]))],
                       hs |-> [j \in 1 .. n |-> OneOver(Ns[j + k - 1])]]

ApplyRates ==
    /\ arg.fn = "rates"
    /\ ret.fn = "none"
    /\ ret' = [fn |-> "rates", val |-> Rates(arg.Es, arg.hs)]
    /\ UNCHANGED <<owner, ghost, uh, uex, cell, pc, deg, idx, Es, hs, rates,
                   contrib, printed, whole, arg, log>>

NextRates == ApplyRates

SpecRates == InitRates /\ [][NextRates]_vars

(***************************************************************************)
(* One error computation applied to an arbitrary field and partition.      *)
(***************************************************************************)
\* the splits of NProcs + 1 cells into NProcs non-empty partitions
Splits ==
    {o \in [1 .. (NProcs + 1) -> Procs] : \A p \in Procs : \E d \in DOMAIN o : o[d] = p}

\* the ghost layouts of a split: rank p ghosts cells owned by the next rank
Halos(o) ==
    {g \in [Procs -> SUBSET (DOMAIN o)] :
        \A p \in Procs : \A d \in g[p] : o[d] # p /\ o[d] = (p + 1) % NProcs}

InitReduce ==
    /\ SweepIdle
    /\ owner \in Splits
    /\ ghost \in Halos(owner)
    /\ uh \in [1 .. (NProcs + 1) -> 0 .. MaxVal]
    /\ \E c \in 0 .. MaxVal : uex = [d \in 1 .. (NProcs + 1) |-> c]
    /\ arg = [fn |-> "reduce"]
    /\ ret = Idle

Applied(name, local, val) ==
    /\ arg.fn = "reduce"
    /\ ret.fn = "none"
    /\ ret' = [fn |-> name, local |-> local, val |-> val]
    /\ UNCHANGED <<owner, ghost, uh, uex, cell, pc, deg, idx, Es, hs, rates,
                   contrib, printed, whole, arg, log>>

ApplyErrorL2 == Applied("error_L2", L2Locals(uh, uex), error_L2(uh, uex))

ApplyErrorInfinity ==
    Applied("error_infinity", InfLocals(uh, uex), error_infinity(uh, uex))

ApplyMaxError == Applied("max_error", InfLocals(uex, uh), max_error(uex, uh))

ApplyErrorMax == Applied("error_max", InfLocals(uh, uex), error_max(uh, uex))

NextReduce ==
    \/ ApplyErrorL2
    \/ ApplyErrorInfinity
    \/ ApplyMaxError
    \/ ApplyErrorMax

SpecReduce == InitReduce /\ [][NextReduce]_vars

(***************************************************************************)
(* Error norms of fields whose dof values are complex.  A scalar is        *)
(* [re, im]; the real build has im = 0 everywhere.  A scalar np.sqrt       *)
(* returns is kept by its square.                                          *)
(***************************************************************************)
Cx(re, im) == [re |-> re, im |-> im]

\* the scalars handed in as dof values
CVals == {Cx(a, b) : a, b \in 0 .. MaxVal}

CAdd(a, b) == Cx(a.re + b.re, a.im + b.im)

\* a - b
CSub(a, b) == Cx(a.re - b.re, a.im - b.im)

CMul(a, b) == Cx((a.re * b.re) - (a.im * b.im), (a.re * b.im) + (a.im * b.re))

conj(a) == Cx(a.re, 0 - a.im)

\* ufl.inner(a, b): the second argument is conjugated
inner(a, b) == CMul(a, conj(b))

\* ufl.dot(a, b): the plain product, nothing is conjugated
dot(a, b) == CMul(a, b)

\* the square of the real part only
RealPartSq(a) == a.re * a.re

\* |a|^2, the square of np.abs(a)
AbsSq(a) == (a.re * a.re) + (a.im * a.im)

\* np.sqrt of a scalar: the principal root w, w * w = z
CSqrt(z) == [sq |-> z]

\* the sum of the scalars f[d], d in S
CSumOfSet(f, S) ==
    Cx(SumOfSet([d \in DOMAIN f |-> f[d].re], S),
       SumOfSet([d \in DOMAIN f |-> f[d].im], S))

\* comm.allreduce(c, op=MPI.SUM) on scalars
AllreduceSum(p, c) ==
    Cx(Allreduce(p, [q \in DOMAIN c |-> c[q].re], "SUM"),
       Allreduce(p, [q \in DOMAIN c |-> c[q].im], "SUM"))

\* uh - u_ex with the terms added
FieldSum(u, v) == [d \in DOMAIN u |-> CAdd(u[d], v[d])]

\* uh - u_ex, u_W.x.array - u_ex_W.x.array
FieldDiff(u, v) == [d \in DOMAIN u |-> CSub(u[d], v[d])]

\* the cells of the chain that carry a gradient: cell c lies between the
\* dofs c and c + 1 and has length 1
GradCells == {c \in Dofs : (c + 1) \in Dofs}

\* grad(e) of the piecewise linear e, cell by cell
grad(e) == [c \in GradCells |-> CSub(e[c + 1], e[c])]

\* the integrands, entity by entity
InnerIntegrand(e) == [d \in DOMAIN e |-> inner(e[d], e[d])]
DotIntegrand(e) == [d \in DOMAIN e |-> dot(e[d], e[d])]

\* assemble_scalar(form(integrand * dx)) on rank p
AssembleScalar(p, integrand) ==
    CSumOfSet(integrand, AssembledCells(p) \cap DOMAIN integrand)

FormLocals(integrand) == [p \in Procs |-> AssembleScalar(p, integrand)]

\* error_L2 on scalars: form(ufl.inner(e_W, e_W) * ufl.dx)
error_L2_form(u, ue) == InnerIntegrand(FieldDiff(u, ue))

\* error_H10 = form(dot(grad(eh), grad(eh)) * dx)
error_H10(u, ue) == DotIntegrand(grad(FieldDiff(u, ue)))

\* complex Poisson: L2_error = form(ufl.dot(uh-u_ex, uh-u_ex) * ufl.dx(...))
L2_error(u, ue) == DotIntegrand(FieldDiff(u, ue))

\* np.sqrt(comm.allreduce(assemble_scalar(form), op=MPI.SUM))
SqrtOfSum(integrand) == CSqrt(AllreduceSum(0, FormLocals(integrand)))

\* np.max(np.abs(a)) over the local array of rank p, by its square
LocalMaxAbsSq(p, a) == MaxOfSet({AbsSq(a[d]) : d \in LocalArrayDofs(p)})

AbsLocals(u, ue) == [p \in Procs |-> LocalMaxAbsSq(p, FieldDiff(u, ue))]

\* error_infinity on scalars: the largest modulus, by its square
error_infinity_abs(u, ue) == CSqrt(Cx(Allreduce(0, AbsLocals(u, ue), "MAX"), 0))

\* comm.allreduce(m) of the local maxima m[p] = sqrt(c[p]): with the default
\* op the sum of the roots, kept by its terms; with MAX the largest root
AllreduceRoots(c, op) ==
    IF op = "SUM" THEN [sum_sqrt |-> c]
    ELSE CSqrt(Cx(Allreduce(0, c, op), 0))

\* complex Poisson: max_error =
\*   mesh.comm.allreduce(np.max(np.abs(u_c.x.array - uh.x.array)))
max_error_abs(uc, u) == AllreduceRoots(AbsLocals(uc, u), DefaultOp)

\* a chain of NProcs + 1 dofs: rank 0 owns the first two, every rank holds
\* the first dof of the next rank as ghost
ChainOwner == [d \in 1 .. (NProcs + 1) |-> IF d = 1 THEN 0 ELSE d - 2]
ChainGhost == [p \in Procs |-> IF p + 1 < NProcs THEN {p + 3} ELSE {}]

InitNorms ==
    /\ SweepIdle
    /\ owner = ChainOwner
    /\ ghost = ChainGhost
    /\ uh \in [1 .. (NProcs + 1) -> CVals]
    /\ \E c \in CVals : uex = [d \in 1 .. (NProcs + 1) |-> c]
    /\ arg = [fn |-> "norm"]
    /\ ret = Idle

NormApplied(name, integrand, local, val) ==
    /\ arg.fn = "norm"
    /\ ret.fn = "none"
    /\ ret' = [fn |-> name, integrand |-> integrand, local |-> local, val |-> val]
    /\ UNCHANGED <<owner, ghost, uh, uex, cell, pc, deg, idx, Es, hs, rates,
                   contrib, printed, whole, arg, log>>

ApplyErrorL2Form ==
    NormApplied("error_L2", error_L2_form(uh, uex),
                FormLocals(error_L2_form(uh, uex)), SqrtOfSum(error_L2_form(uh, uex)))

ApplyErrorH10 ==
    NormApplied("E_H10", error_H10(uh, uex),
                FormLocals(error_H10(uh, uex)), SqrtOfSum(error_H10(uh, uex)))

ApplyL2Error ==
    NormApplied("L2_error", L2_error(uh, uex),
                FormLocals(L2_error(uh, uex)), SqrtOfSum(L2_error(uh, uex)))

ApplyErrorInfinityAbs ==
    NormApplied("error_infinity",
                [d \in Dofs |-> Cx(AbsSq(FieldDiff(uh, uex)[d]), 0)],
                [p \in Procs |-> Cx(AbsLocals(uh, uex)[p], 0)],
                error_infinity_abs(uh, uex))

ApplyMaxErrorAbs ==
    NormApplied("max_error",
                [d \in Dofs |-> Cx(AbsSq(FieldDiff(uex, uh)[d]), 0)],
                [p \in Procs |-> Cx(AbsLocals(uex, uh)[p], 0)],
                max_error_abs(uex, uh))

NextNorms ==
    \/ ApplyErrorL2Form
    \/ ApplyErrorH10
    \/ ApplyL2Error
    \/ ApplyErrorInfinityAbs
    \/ ApplyMaxErrorAbs

SpecNorms == InitNorms /\ [][NextNorms]_vars

(***************************************************************************)
(* Function spaces and interpolation.  The mesh is a chain of cells of     *)
(* length FineUnit; coordinates are integers.  A space is                  *)
(* [mesh, family, degree], mesh being the number of cells.  A function is  *)
(* [space, x, expansion]: x its dof array, expansion the polynomial        *)
(* c0 + c1 t + c2 t^2 it is (<<>> when only the dof array is known).       *)
(***************************************************************************)
\* def error_L2(uh, u_ex, degree_raise=3)
DefaultDegreeRaise == 3

\* the families, degrees, raises and meshes the error functions are given
Families == {"Lagrange", "DG"}
RaiseDegrees == {degrees[1], degrees[3]}
DegreeRaises == {1, DefaultDegreeRaise}
RaiseMeshes == {NProcs, NProcs + 1}

LCM(a, b) == (a * b) \div GCD(a, b)

RECURSIVE LCMOfSet(_)
LCMOfSet(S) ==
    IF S = {} THEN 1
    ELSE LET a == CHOOSE y \in S : TRUE IN LCM(a, LCMOfSet(S \ {a}))

\* the length of a cell: every node of every space in use has an integer
\* coordinate
FineUnit == LCMOfSet(RaiseDegrees \cup {q + r : q \in RaiseDegrees, r \in DegreeRaises})

\* functionspace(mesh, (family, degree))
functionspace(mesh, family, degree) ==
    [mesh |-> mesh, family |-> family, degree |-> degree]

\* the number of dofs of a space: nodes shared by two cells are one dof of
\* a Lagrange space and two of a DG space
NumDofs(sp) ==
    IF sp.family = "Lagrange" THEN (sp.mesh * sp.degree) + 1
    ELSE sp.mesh * (sp.degree + 1)

SpaceDofs(sp) == 0 .. (NumDofs(sp) - 1)

\* dofmap: the dof of node j of cell c
CellDof(sp, c, j) ==
    IF sp.family = "Lagrange" THEN (c * sp.degree) + j ELSE (c * (sp.degree + 1)) + j

\* element.interpolation_points(): the nodes of the reference cell
interpolation_points(sp) == [j \in 0 .. sp.degree |-> j * (FineUnit \div sp.degree)]

\* a map to physical coordinates that forgets the cell
PushForwardNoOffset(c, X) == X

\* the physical point of the reference point X of cell c
PushForward(c, X) == (c * FineUnit) + X

\* the coordinate of dof g
DofCoord(sp, g) ==
    IF sp.family = "Lagrange" THEN g * (FineUnit \div sp.degree)
    ELSE ((g \div (sp.degree + 1)) * FineUnit)
         + ((g % (sp.degree + 1)) * (FineUnit \div sp.degree))

\* the value of the polynomial f at t
Eval(f, t) == f[1] + (f[2] * t) + (f[3] * t * t)

\* Function(W).interpolate(u), u a function or a callable: u is evaluated
\* at the coordinates of the dofs of W
interpolate(W, f) ==
    [space |-> W, x |-> [g \in SpaceDofs(W) |-> Eval(f, DofCoord(W, g))],
     expansion |-> <<>>]

\* Expression(u_ex, X): u_ex evaluated at the points X of every cell
Expression(f, X, mesh) ==
    [c \in 0 .. (mesh - 1) |-> [j \in DOMAIN X |-> Eval(f, PushForward(c, X[j]))]]

\* Function(W).interpolate(u_expr): cell by cell, the values of the
\* expression are written to the dofs of the cell
interpolate_expr(W, vals) ==
    [space |-> W,
     x |-> [g \in SpaceDofs(W) |->
              LET c == CHOOSE c \in DOMAIN vals :
                          /\ \E j \in 0 .. W.degree : CellDof(W, c, j) = g
                          /\ \A c2 \in DOMAIN vals :
                                (\E j \in 0 .. W.degree : CellDof(W, c2, j) = g) => c2 <= c
                  j == CHOOSE j \in 0 .. W.degree : CellDof(W, c, j) = g
              IN vals[c][j]],
     expansion |-> <<>>]

\* isinstance(u_ex, ufl.core.expr.Expr)
isinstance_Expr(u_ex) == u_ex.type = "Expr"

\* the interpolation of the exact solution into the space sp, by its type
InterpolateExact(sp, u_ex) ==
    IF isinstance_Expr(u_ex)
    THEN interpolate_expr(sp, Expression(u_ex.f, interpolation_points(sp), sp.mesh))
    ELSE interpolate(sp, u_ex.f)

\* the difference formed in the space of u_h
SameDegree(degree, degree_raise) == degree

\* degree + degree_raise
RaisedDegree(degree, degree_raise) == degree + degree_raise

\* W = functionspace(mesh, (family, degree + degree_raise))
RaisedSpace(V, degree_raise) ==
    functionspace(V.mesh, V.family, RaisedDegree(V.degree, degree_raise))

\* the objects the caller holds when it makes the call
Arguments(u, u_ex) == [o \in {"uh", "u_ex"} |-> IF o = "uh" THEN u ELSE u_ex]

\* a write that lands in the array of the argument uh
StoreInArgument(heap, obj, val) ==
    [o \in DOMAIN heap |-> IF o = "uh" THEN val ELSE heap[o]]

\* obj = Function(...) followed by obj.interpolate(...) or
\* obj.x.array[:] = ...: the write goes to the object made in the call
Store(heap, obj, val) ==
    [o \in DOMAIN heap \cup {obj} |-> IF o = obj THEN val ELSE heap[o]]

\* error_L2(uh, u_ex, degree_raise): the spaces and functions it builds and
\* the value it returns
error_L2_raise(u, u_ex, degree_raise) ==
    LET W == RaisedSpace(u.space, degree_raise)
        u_W == interpolate(W, u.expansion)
        u_ex_W == InterpolateExact(W, u_ex)
        e_W == [space |-> W, x |-> ArrayDiff(u_W.x, u_ex_W.x), expansion |-> <<>>]
        heap == Store(Store(Store(Arguments(u, u_ex), "u_W", u_W),
                            "u_ex_W", u_ex_W), "e_W", e_W)
    IN [fn |-> "error_L2", W |-> W, u_W |-> u_W, u_ex_W |-> u_ex_W,
        path |-> IF isinstance_Expr(u_ex) THEN "expression" ELSE "callable",
        e_W |-> e_W, heap |-> heap,
        val |-> error_L2(u_W.x, u_ex_W.x)]

\* the exact solution put into a higher-order space, as error_L2 does
u_ex_V_raised(u_h) == RaisedSpace(u_h.space, DefaultDegreeRaise)

\* u_ex_V = Function(u_h.function_space)
u_ex_V_space(u_h) == u_h.space

\* error_infinity(u_h, u_ex): the exact solution goes into the space of u_h
error_infinity_V(u, u_ex) ==
    LET u_ex_V == InterpolateExact(u_ex_V_space(u), u_ex)
        heap == Store(Arguments(u, u_ex), "u_ex_V", u_ex_V)
    IN [fn |-> "error_infinity", W |-> u.space, u_W |-> u, u_ex_W |-> u_ex_V,
        path |-> IF isinstance_Expr(u_ex) THEN "expression" ELSE "callable",
        e_W |-> [space |-> u.space, x |-> ArrayDiff(u.x, u_ex_V.x), expansion |-> <<>>],
        heap |-> heap,
        val |-> AsScalar(error_infinity(u.x, u_ex_V.x))]

\* the polynomials of degree <= k (at most 2) handed in
Polys(k) ==
    {f \in [1 .. 3 -> 0 .. MaxVal] : (k < 2 => f[3] = 0) /\ (k < 1 => f[2] = 0)}

\* the function of the space V that is the polynomial f
FunctionOf(V, f) == [interpolate(V, f) EXCEPT !.expansion = f]

\* the rank that owns dof g of the space sp: the cells are dealt out in
\* order, a dof goes with the first cell it belongs to
SpaceOwner(sp) ==
    [g \in SpaceDofs(sp) |->
        LET c == CHOOSE c \in 0 .. (sp.mesh - 1) :
                    /\ \E j \in 0 .. sp.degree : CellDof(sp, c, j) = g
                    /\ \A c2 \in 0 .. (sp.mesh - 1) :
                          (\E j \in 0 .. sp.degree : CellDof(sp, c2, j) = g) => c <= c2
        IN (c * NProcs) \div sp.mesh]

\* the ghosts of rank p: the first dof of the next rank
SpaceGhost(sp) ==
    [p \in Procs |->
        IF p + 1 < NProcs
        THEN {CHOOSE g \in SpaceDofs(sp) :
                 /\ SpaceOwner(sp)[g] = p + 1
                 /\ \A g2 \in SpaceDofs(sp) : SpaceOwner(sp)[g2] = p + 1 => g <= g2}
        ELSE {}]

\* the degree_raise of a call: the default when the argument is left out
DegreeRaiseOf(a) == IF a.given THEN a.val ELSE DefaultDegreeRaise

\* the space the arrays of a call live in
WorkSpace(a) ==
    IF a.fn = "error_L2" THEN RaisedSpace(a.uh.space, DegreeRaiseOf(a.degree_raise))
    ELSE a.uh.space

InitRaise ==
    /\ SweepIdle
    /\ uh = [d \in 1 .. NProcs |-> 0]
    /\ uex = [d \in 1 .. NProcs |-> 0]
    /\ ret = Idle
    /\ \E fam \in Families, q \in RaiseDegrees, n \in RaiseMeshes,
          fn \in {"error_L2", "error_infinity"}, type \in {"Expr", "callable"} :
          \E f \in Polys(q), fex \in Polys(2), given \in BOOLEAN, r \in DegreeRaises :
             /\ (given = FALSE => r = DefaultDegreeRaise)
             /\ (fn = "error_infinity" => given = FALSE)
             /\ arg = [fn |-> fn,
                       uh |-> FunctionOf(functionspace(n, fam, q), f),
                       u_ex |-> [type |-> type, f |-> fex],
                       degree_raise |-> [given |-> given, val |-> r]]
    /\ owner = SpaceOwner(WorkSpace(arg))
    /\ ghost = SpaceGhost(WorkSpace(arg))

RaiseApplied(r) ==
    /\ ret.fn = "none"
    /\ ret' = r
    /\ UNCHANGED <<owner, ghost, uh, uex, cell, pc, deg, idx, Es, hs, rates,
                   contrib, printed, whole, arg, log>>

ApplyErrorL2Raise ==
    /\ arg.fn = "error_L2"
    /\ RaiseApplied(error_L2_raise(arg.uh, arg.u_ex, DegreeRaiseOf(arg.degree_raise)))

ApplyErrorInfinityV ==
    /\ arg.fn = "error_infinity"
    /\ RaiseApplied(error_infinity_V(arg.uh, arg.u_ex))

NextRaise ==
    \/ ApplyErrorL2Raise
    \/ ApplyErrorInfinityV

SpecRaise == InitRaise /\ [][NextRaise]_vars

(***************************************************************************)
(* E_H10 on a function space.  uh = solve_poisson(N) lies in the Lagrange  *)
(* space of degree 1, u_ex is the exact solution as an expression of the   *)
(* coordinate.  Integrals are exact and carried times 3 * FineUnit^2.      *)
(***************************************************************************)
\* def solve_poisson(N=10, degree=1)
SolveDegree == 1

\* the rank that owns cell c of the space sp
CellRank(sp, c) == (c * NProcs) \div sp.mesh

\* uh put into a higher-order space before it is differenced
InterpolatedOperand(u) ==
    [interpolate(RaisedSpace(u.space, DefaultDegreeRaise), u.expansion)
        EXCEPT !.expansion = u.expansion]

\* uh as it stands in the form
FormOperand(u) == u

\* eh = uh - u_ex
eh(u, u_ex) == [u |-> FormOperand(u), u_ex |-> u_ex]

\* grad(eh) on cell c, times FineUnit: A + B t with
\* A = (uh at the right end - uh at the left end) - FineUnit * u_ex'(0)
grad_eh(e, c) ==
    LET V == e.u.space
        rise == e.u.x[CellDof(V, c, V.degree)] - e.u.x[CellDof(V, c, 0)]
    IN [A |-> rise - (FineUnit * e.u_ex.f[2]),
        B |-> 0 - (2 * FineUnit * e.u_ex.f[3])]

\* 3 * (the antiderivative of (A + B t)^2) at t
Antiderivative(g, t) ==
    (3 * g.A * g.A * t) + (3 * g.A * g.B * t * t) + (g.B * g.B * t * t * t)

\* dot(grad(eh), grad(eh)) * dx over cell c
CellIntegral(e, c) ==
    Antiderivative(grad_eh(e, c), (c + 1) * FineUnit)
        - Antiderivative(grad_eh(e, c), c * FineUnit)

\* assemble_scalar(error_H10) on rank p
AssembleH10(e, p) ==
    LET cells == {c \in 0 .. (e.u.space.mesh - 1) : CellRank(e.u.space, c) = p}
    IN SumOfSet([c \in 0 .. (e.u.space.mesh - 1) |-> CellIntegral(e, c)], cells)

\* E_H10 = np.sqrt(comm.allreduce(assemble_scalar(error_H10), op=MPI.SUM))
E_H10(u, u_ex) ==
    LET e == eh(u, u_ex)
        local == [p \in Procs |-> AssembleH10(e, p)]
    IN [fn |-> "E_H10", eh |-> e, local |-> local,
        val |-> Div(Sqrt(Allreduce(0, local, "SUM")),
                    Sqrt(3 * FineUnit * FineUnit))]

InitH10 ==
    /\ SweepIdle
    /\ uh = [d \in 1 .. NProcs |-> 0]
    /\ uex = [d \in 1 .. NProcs |-> 0]
    /\ ret = Idle
    /\ \E n \in RaiseMeshes, f \in Polys(SolveDegree), fex \in Polys(2) :
          /\ arg = [fn |-> "E_H10",
                    uh |-> FunctionOf(functionspace(n, "Lagrange", SolveDegree), f),
                    u_ex |-> [type |-> "Expr", f |-> fex]]
          /\ owner = SpaceOwner(arg.uh.space)
          /\ ghost = SpaceGhost(arg.uh.space)

ApplyEH10 ==
    /\ arg.fn = "E_H10"
    /\ RaiseApplied(E_H10(arg.uh, arg.u_ex))

SpecH10 == InitH10 /\ [][ApplyEH10]_vars

(***************************************************************************)
(* Properties.                                                             *)
(***************************************************************************)
IsPowerLaw(E, h, c2, r) == \A j \in 1 .. Len(E) : E[j] = PowerLawSample(c2, r, h[j])

Degenerate(r) == r.kind \in {"inf", "ninf", "nan"}

\* the rate of the pair (k, k+1) of the samples E, h, computed on its own
PairRate(E, h, k) ==
    LogDiv(Log(Div(E[k + 1], E[k])), Log(Div(h[k + 1], h[k])))

\* C1: for samples E_i = C * h_i^r with C > 0 and strictly decreasing h, the
\* rate computation returns r at every consecutive pair, whatever C is.
C1_RateFormula ==
    ret.fn = "rates" =>
        \A c2 \in PowerLawC2, r \in PowerLawR :
            (StrictlyDecreasing(arg.hs) /\ IsPowerLaw(arg.Es, arg.hs, c2, r))
                => \A k \in 1 .. Len(ret.val) : ret.val[k] = Rat(r, 1)

\* C1 witness: E_i = 2 * h_i^3 over three samples has been given its rates.
C1_Witness ==
    /\ ret.fn = "rates"
    /\ Len(arg.Es) = 3
    /\ StrictlyDecreasing(arg.hs)
    /\ IsPowerLaw(arg.Es, arg.hs, 4, 3)
    /\ ret.val = <<Rat(3, 1), Rat(3, 1)>>

\* C2: n samples give exactly n - 1 rates, and the k-th rate is the rate of
\* the samples k and k + 1 alone, in sample order.
C2_SlidingPairs ==
    ret.fn = "rates" =>
        /\ Len(ret.val) = Len(arg.Es) - 1
        /\ \A k \in 1 .. (Len(arg.Es) - 1) :
              ret.val[k] = PairRate(arg.Es, arg.hs, k)

\* C2 witness: three samples whose two pairs have different rates.
C2_Witness ==
    /\ ret.fn = "rates"
    /\ Len(arg.Es) = 3
    /\ Len(ret.val) = 2
    /\ ret.val[1].kind = "rat"
    /\ ret.val[2].kind = "rat"
    /\ ret.val[1] # ret.val[2]

\* C3: a zero error sample is surfaced: no inf/nan rate is printed as if it
\* were a rate.
C3_ZeroErrorSurfaced ==
    \A p \in Procs :
        printed[p].kind = "rates" =>
            \A k \in 1 .. Len(printed[p].rates) : ~Degenerate(printed[p].rates[k])

C6_MaxReduction ==
    ret.fn \in {"error_infinity", "max_error", "error_max"} =>
        ret.val = MaxOfSet({ret.local[p] : p \in Procs})

\* C7: for every split, error_L2 and error_infinity equal the errors of the
\* unpartitioned field, and each cell is integrated by exactly one rank.
C7_PartitionIndependent ==
    /\ ret.fn = "error_L2" =>
          /\ ret.val = WholeL2(uh, uex)
          /\ \A d \in Dofs : Cardinality({p \in Procs : d \in AssembledCells(p)}) = 1
          /\ \A p \in Procs :
                ret.local[p] =
                    SumOfSet([d \in Dofs |-> (uh[d] - uex[d]) * (uh[d] - uex[d])],
                             OwnedDofs(p))
    /\ ret.fn = "error_infinity" => ret.val = WholeInf(uh, uex)

\* C7 witness: error_L2 of a field whose error is non-zero on a ghosted cell.
C7_Witness ==
    /\ ret.fn = "error_L2"
    /\ \E p \in Procs : \E d \in ghost[p] : uh[d] # uex[d]
    /\ \E p \in Procs : Cardinality(OwnedDofs(p)) > 1
    /\ ret.val # Zero

\* max |u - ue| over a set of dofs
MaxAbsOver(S) == MaxOfSet({AbsInt(uh[d] - uex[d]) : d \in S})

C9_BlockingReduction ==
    \A p \in Procs :
        deg[p] = whole.deg =>
            \A j \in 1 .. idx[p] : Es[p][j] = whole.vals[j]

\* C9 witness: a rank has recorded a sample and entered the next solve while
\* another rank, whose local scalar is non-zero, still waits in the allreduce.
C9_Witness ==
    \E p, q \in Procs :
        /\ pc[p] = "solving"
        /\ idx[p] >= 1
        /\ pc[q] = "wait"
        /\ contrib[q] > 0
        /\ contrib[p] > 0

\* the number of rate sequences rank p has computed
RatesDone(p) == (deg[p] - 1) + (IF pc[p] = "done" THEN 1 ELSE 0)

\* C10: all ranks receive the same reduced scalar: their recorded samples
\* agree, equal positions mean equal Es and hs arrays, their rates agree,
\* and only rank 0 prints.
C10_SameOnAllRanks ==
    \A p, q \in Procs :
        /\ deg[p] = deg[q] =>
              \A j \in 1 .. idx[p] :
                  j <= idx[q] => Es[p][j] = Es[q][j] /\ hs[p][j] = hs[q][j]
        /\ (deg[p] = deg[q] /\ idx[p] = idx[q]) => (Es[p] = Es[q] /\ hs[p] = hs[q])
        /\ RatesDone(p) = RatesDone(q) => rates[p] = rates[q]
        /\ p # 0 => printed[p] = NoLine

\* C10 witness: the sweep is over on all ranks, whose last local scalars
\* differed, and rank 0 printed the rates all ranks hold.
C10_Witness ==
    /\ \A p \in Procs : pc[p] = "done" /\ Len(rates[p]) >= 1
    /\ \E p, q \in Procs : contrib[p] # contrib[q]
    /\ printed[0].kind = "rates"
    /\ printed[0].rates = rates[NProcs - 1]

\* the steps of a whole sweep of cell c, in program order: per degree, a
\* solve and a sample for each N, then the rates
SweepOrder(c) ==
    LET n == Len(SweepNs)
        per == 2 * n + 1
    IN [j \in 1 .. (Len(CellDegrees(c)) * per) |->
           LET d == CellDegrees(c)[((j - 1) \div per) + 1]
               r == (j - 1) % per
           IN IF r = 2 * n THEN [op |-> "rates", N |-> 0, degree |-> d]
              ELSE [op |-> IF r % 2 = 0 THEN "solve" ELSE "sample",
                    N |-> SweepNs[(r \div 2) + 1], degree |-> d]]

IsPrefix(a, b) == Len(a) <= Len(b) /\ a = SubSeq(b, 1, Len(a))

\* the steps of rank p that are not a failure of the solver
Steps(p) == SelectSeq(log[p], LAMBDA e : e.op # "fail")

\* C11: on every rank the solver calls, the recorded samples and the rate
\* computations follow the sweep order: one solve per (N, degree) in list
\* order, one sample after each solve, and the rates of a degree once, after
\* the samples of all N; a finished sweep has done all of them.
C11_SweepOrder ==
    \A p \in Procs :
        /\ IsPrefix(Steps(p), SweepOrder(cell))
        /\ pc[p] = "done" => log[p] = SweepOrder(cell)

\* C11 witness: the degree sweep has run to its end on every rank.
C11_Witness ==
    /\ cell = "L2"
    /\ \A p \in Procs :
          /\ pc[p] = "done"
          /\ Len(log[p]) = Len(degrees) * (2 * Len(SweepNs) + 1)
          /\ log[p][Len(log[p])] = [op |-> "rates", N |-> 0, degree |-> 4]

\* 1. / Ns[i] for the N of the sweep
SweepHs == [k \in 1 .. Len(SweepNs) |-> OneOver(SweepNs[k])]

\* rank p holds the rates of the degree whose fields were solved last
HoldsRates(p) ==
    \/ pc[p] = "done"
    \/ deg[p] > 1 /\ idx[p] = 0 /\ pc[p] \in {"solve", "solving"}

\* C12: the sample arrays of a degree start from zeros and hold nothing of
\* the degree before; the sample just recorded is the error of the field
\* just solved; the rates of a degree are the rates of the errors of that
\* degree's fields alone.
C12_NoCarryOver ==
    \A p \in Procs :
        /\ \A k \in (idx[p] + 1) .. Len(SweepNs) :
              Es[p][k] = Zero /\ hs[p][k] = Zero
        /\ (idx[p] >= 1 /\ pc[p] \in {"solve", "solving", "rates"}) =>
              Es[p][idx[p]] = WholeError(cell, uh, uex)
        /\ HoldsRates(p) => rates[p] = Rates(whole.vals, SweepHs)

\* C12 witness: a rank has started the second degree on zeroed arrays after
\* a first degree whose samples were not zero.
C12_Witness ==
    \E p \in Procs :
        /\ deg[p] = 2
        /\ idx[p] = 0
        /\ pc[p] = "solve"
        /\ whole.deg = 1
        /\ \A k \in 1 .. Len(SweepNs) : whole.vals[k] # Zero
        /\ Es[p] = Zeros
        /\ Len(rates[p]) = Len(SweepNs) - 1

\* C19: a failure of the solver at (N, degree) is the last step of the sweep
\* on every rank: it follows the call that failed, no sample of that pair
\* is recorded, and no rates of that degree or a later one are computed.
C19_FailureFatal ==
    \A p \in Procs : \A k \in 1 .. Len(log[p]) :
        log[p][k].op = "fail" =>
            /\ k = Len(log[p])
            /\ k > 1 /\ log[p][k - 1] = [log[p][k] EXCEPT !.op = "solve"]
            /\ \A j \in 1 .. Len(log[p]) :
                  /\ ~(log[p][j].op = "sample" /\ log[p][j].N = log[p][k].N
                         /\ log[p][j].degree = log[p][k].degree)
                  /\ ~(log[p][j].op = "rates" /\ log[p][j].degree >= log[p][k].degree)
            /\ Es[p][idx[p] + 1] = Zero
            /\ pc[p] = "failed"

\* C19 witness: the solver failed at the second N of the second degree,
\* after the rates of the first degree.
C19_Witness ==
    \A p \in Procs :
        /\ pc[p] = "failed"
        /\ log[p][Len(log[p])] = [op |-> "fail", N |-> 8, degree |-> 2]
        /\ \E j \in 1 .. Len(log[p]) : log[p][j].op = "rates"

\* a scalar that is real and not negative
NonNegReal(z) == z.im = 0 /\ z.re >= 0

C14_SesquilinearReal ==
    ret.fn \in {"error_L2", "L2_error"} =>
        /\ \A d \in DOMAIN ret.integrand : NonNegReal(ret.integrand[d])
        /\ \A p \in Procs : NonNegReal(ret.local[p])
        /\ NonNegReal(ret.val.sq)

\* the gradient of uh - uex
GradDiff == grad(FieldDiff(uh, uex))

C16_ExactRecovery ==
    (ret.fn \in {"error_L2", "E_H10", "error_infinity"} /\ uh = uex) =>
        ret.val = CSqrt(Cx(0, 0))

\* C16 witness: the H1-seminorm error of a complex field that is not zero
\* and equals the exact solution has been computed, and is 0.
C16_Witness ==
    /\ ret.fn = "E_H10"
    /\ uh = uex
    /\ uh[1].re > 0 /\ uh[1].im > 0
    /\ ret.val = CSqrt(Cx(0, 0))

\* C17: error_L2 builds W on the mesh and with the family of the space of
\* u_h, of degree p + degree_raise (3 when the argument is left out);
\* u_h and the exact solution are both interpolated into W, and the
\* difference is formed dof by dof in W, not in the space of u_h.
C17_DegreeRaise ==
    (ret.fn = "error_L2" /\ arg.fn = "error_L2") =>
        LET V == arg.uh.space
            r == IF arg.degree_raise.given THEN arg.degree_raise.val ELSE 3
            W == [mesh |-> V.mesh, family |-> V.family, degree |-> V.degree + r]
        IN /\ ret.W = W
           /\ ret.u_W.space = W /\ ret.u_ex_W.space = W /\ ret.e_W.space = W
           /\ DOMAIN ret.e_W.x = SpaceDofs(W)
           /\ DOMAIN ret.e_W.x # DOMAIN arg.uh.x
           /\ \A g \in SpaceDofs(W) :
                 /\ ret.u_W.x[g] = Eval(arg.uh.expansion, DofCoord(W, g))
                 /\ ret.u_ex_W.x[g] = Eval(arg.u_ex.f, DofCoord(W, g))
                 /\ ret.e_W.x[g] = ret.u_W.x[g] - ret.u_ex_W.x[g]

\* C17 witness: error_L2 called without degree_raise on a degree 1 field
\* that differs from the exact solution: the difference lives in degree 4.
C17_Witness ==
    /\ ret.fn = "error_L2" /\ arg.fn = "error_L2"
    /\ ~arg.degree_raise.given
    /\ arg.uh.space.degree = 1
    /\ ret.W.degree = 4
    /\ ret.val # Zero

\* the exact solution of the call in its other representation
OtherRepresentation ==
    [arg.u_ex EXCEPT !.type = IF @ = "Expr" THEN "callable" ELSE "Expr"]

\* the call made again with the other representation
CalledAgain ==
    IF ret.fn = "error_L2"
    THEN error_L2_raise(arg.uh, OtherRepresentation, DegreeRaiseOf(arg.degree_raise))
    ELSE error_infinity_V(arg.uh, OtherRepresentation)

\* C18: error_L2 and error_infinity take the expression path for a symbolic
\* expression and direct interpolation for a callable, by the type alone,
\* and the other representation of the same function gives the same
\* interpolated exact solution and the same error.
C18_BothRepresentations ==
    (ret.fn \in {"error_L2", "error_infinity"} /\ arg.fn = ret.fn) =>
        /\ ret.path = (IF arg.u_ex.type = "Expr" THEN "expression" ELSE "callable")
        /\ CalledAgain.path # ret.path
        /\ CalledAgain.u_ex_W = ret.u_ex_W
        /\ CalledAgain.val = ret.val

\* C18 witness: error_infinity of a symbolic expression that is not
\* constant, on a DG space over several cells, with a non-zero error.
C18_Witness ==
    /\ ret.fn = "error_infinity" /\ arg.fn = "error_infinity"
    /\ ret.path = "expression"
    /\ arg.uh.space.family = "DG"
    /\ arg.uh.space.mesh > 1
    /\ arg.u_ex.f[3] > 0
    /\ ret.val # Zero

\* C21: error_infinity interpolates the exact solution into the function
\* space of u_h itself (same mesh, family and degree): the array of u_ex_V
\* has the entries of the array of u_h, entry g of both belongs to the same
\* node, and the difference is formed entry by entry.
C21_SameSpace ==
    (ret.fn = "error_infinity" /\ arg.fn = "error_infinity") =>
        LET V == arg.uh.space
            u_ex_V == ret.u_ex_W
        IN /\ u_ex_V.space.mesh = V.mesh
           /\ u_ex_V.space.family = V.family
           /\ u_ex_V.space.degree = V.degree
           /\ DOMAIN u_ex_V.x = DOMAIN arg.uh.x
           /\ DOMAIN ret.e_W.x = DOMAIN arg.uh.x
           /\ \A g \in DOMAIN arg.uh.x :
                 /\ arg.uh.x[g] = Eval(arg.uh.expansion, DofCoord(V, g))
                 /\ u_ex_V.x[g] = Eval(arg.u_ex.f, DofCoord(V, g))
                 /\ ret.e_W.x[g] = arg.uh.x[g] - u_ex_V.x[g]

\* C21 witness: error_infinity has run on a quadratic-or-higher Lagrange
\* field over several cells and returned a non-zero error.
C21_Witness ==
    /\ ret.fn = "error_infinity" /\ arg.fn = "error_infinity"
    /\ arg.uh.space.family = "Lagrange"
    /\ arg.uh.space.degree > 1
    /\ arg.uh.space.mesh > 1
    /\ ret.val # Zero

\* the objects a call of fn creates
Created(fn) == IF fn = "error_L2" THEN {"u_W", "u_ex_W", "e_W"} ELSE {"u_ex_V"}

\* C26: after error_L2 and after error_infinity u_h (its space and its
\* degree-of-freedom array) and the exact-solution argument are what they
\* were before the call; the objects written are the ones created inside
\* the call (u_W, u_ex_W, e_W; u_ex_V), which hold the interpolants and
\* the difference.
C26_InputsUnchanged ==
    (ret.fn \in {"error_L2", "error_infinity"} /\ arg.fn = ret.fn) =>
        /\ DOMAIN ret.heap = {"uh", "u_ex"} \cup Created(ret.fn)
        /\ ret.heap["uh"] = arg.uh
        /\ ret.heap["uh"].x = arg.uh.x
        /\ ret.heap["u_ex"] = arg.u_ex
        /\ ret.fn = "error_L2" =>
              /\ ret.heap["u_W"] = ret.u_W
              /\ ret.heap["u_ex_W"] = ret.u_ex_W
              /\ ret.heap["e_W"] = ret.e_W
        /\ ret.fn = "error_infinity" => ret.heap["u_ex_V"] = ret.u_ex_W

\* C26 witness: error_L2 has returned a non-zero error for a non-zero u_h
\* whose array differs from every array written in the call.
C26_Witness ==
    /\ ret.fn = "error_L2" /\ arg.fn = "error_L2"
    /\ ret.val # Zero
    /\ \E g \in DOMAIN arg.uh.x : arg.uh.x[g] # 0
    /\ \A o \in Created("error_L2") : ret.heap[o].x # arg.uh.x

\* the difference of the two complex fields at dof g
DofDiff(g) == Cx(uh[g].re - uex[g].re, uh[g].im - uex[g].im)

\* the largest squared modulus of the differences in the local array of p
LargestModulusSq(p) ==
    MaxOfSet({(DofDiff(g).re * DofDiff(g).re) + (DofDiff(g).im * DofDiff(g).im) :
                 g \in LocalArrayDofs(p)})

\* the max error returned is not zero
NonZeroMax ==
    IF ret.fn = "max_error" THEN \E p \in Procs : ret.val.sum_sqrt[p] > 0
    ELSE ret.val # CSqrt(Cx(0, 0))

\* C27: on complex fields error_infinity and the max_error of the complex
\* Poisson cell take, on every rank, the largest modulus |d| (re^2 + im^2
\* under the root) of the degree-of-freedom differences, not the largest
\* real part; a difference that is purely imaginary and not zero gives a
\* max error that is not zero.
C27_Modulus ==
    (ret.fn \in {"error_infinity", "max_error"} /\ arg.fn = "norm") =>
        /\ \A p \in Procs : ret.local[p] = Cx(LargestModulusSq(p), 0)
        /\ ret.fn = "error_infinity" =>
              ret.val = CSqrt(Cx(MaxOfSet({LargestModulusSq(p) : p \in Procs}), 0))
        /\ ret.fn = "max_error" =>
              ret.val = [sum_sqrt |-> [p \in Procs |-> LargestModulusSq(p)]]
        /\ (\E g \in Dofs : DofDiff(g).re = 0 /\ DofDiff(g).im # 0) => NonZeroMax

\* C27 witness: max_error was computed for fields whose differences all have
\* real part zero, one of them not zero, and it is not zero.
C27_Witness ==
    /\ ret.fn = "max_error" /\ arg.fn = "norm"
    /\ \A g \in Dofs : DofDiff(g).re = 0
    /\ \E g \in Dofs : DofDiff(g).im # 0
    /\ NonZeroMax

\* 3 * FineUnit^2 * the integral of (uh' - u_ex')^2 over the whole mesh, uh
\* the polynomial of the call
WholeH10 ==
    LET e == [k \in 1 .. 3 |-> arg.uh.expansion[k] - arg.u_ex.f[k]]
        g == [A |-> FineUnit * e[2], B |-> 2 * FineUnit * e[3]]
    IN Antiderivative(g, arg.uh.space.mesh * FineUnit)

\* C22: E_H10 uses no degree raise.  The function differenced is u_h itself,
\* in its own space and with its own degree-of-freedom array, the exact
\* solution enters as the expression it is, no function of a space of
\* higher degree is made, and the value is the root of the integral of the
\* squared gradient of that difference.
C22_NoDegreeRaise ==
    (ret.fn = "E_H10" /\ arg.fn = "E_H10") =>
        /\ ret.eh.u = arg.uh
        /\ ret.eh.u.space.degree = arg.uh.space.degree
        /\ DOMAIN ret.eh.u.x = SpaceDofs(arg.uh.space)
        /\ ret.eh.u_ex = arg.u_ex
        /\ ret.val = Div(Sqrt(WholeH10), Sqrt(3 * FineUnit * FineUnit))

\* C22 witness: E_H10 of a u_h with a slope against a curved exact solution,
\* over several cells, is not zero.
C22_Witness ==
    /\ ret.fn = "E_H10" /\ arg.fn = "E_H10"
    /\ arg.uh.expansion[2] > 0
    /\ arg.u_ex.f[3] > 0
    /\ arg.uh.space.mesh > 1
    /\ ret.val # Zero

\* 1 / Ns[k], as a quotient of floats
InverseNs == [k \in 1 .. Len(SweepNs) |-> Div(AsScalar(1), AsScalar(SweepNs[k]))]

\* C23: on every rank sample k holds h = 1/Ns[k] next to the error of the
\* k-th field solved for this degree, which was solved for N = Ns[k]; when
\* the rates are computed hs is 1/Ns entry by entry and strictly decreasing.
C23_StepSizes ==
    \A p \in Procs :
        /\ \A k \in 1 .. idx[p] :
              /\ hs[p][k] = InverseNs[k]
              /\ deg[p] = whole.deg => Es[p][k] = whole.vals[k]
              /\ \E j \in 1 .. Len(log[p]) :
                    log[p][j] = [op |-> "sample", N |-> SweepNs[k],
                                 degree |-> CellDegrees(cell)[deg[p]]]
        /\ pc[p] = "rates" =>
              /\ Len(hs[p]) = Len(SweepNs)
              /\ idx[p] = Len(SweepNs)
              /\ StrictlyDecreasing(hs[p])

\* C23 witness: a rank is about to compute rates from non-zero errors.
C23_Witness ==
    \E p \in Procs :
        /\ pc[p] = "rates"
        /\ cell = "L2"
        /\ deg[p] = 2
        /\ \A k \in 1 .. Len(SweepNs) : Es[p][k] # Zero

\* the number of samples rank p has recorded for N at its current degree
TimesWritten(p, N) ==
    Cardinality({j \in 1 .. Len(log[p]) :
                    log[p][j] = [op |-> "sample", N |-> N,
                                 degree |-> CellDegrees(cell)[deg[p]]]})

\* C24: Es and hs have length len(Ns) and start a sweep as zeros; when the
\* rates are computed every slot has been written exactly once in this
\* sweep and Es holds the computed errors, so a zero in Es is a computed
\* zero.
C24_EverySlotWritten ==
    \A p \in Procs :
        /\ Len(Es[p]) = Len(SweepNs) /\ Len(hs[p]) = Len(SweepNs)
        /\ (idx[p] = 0 /\ pc[p] # "done") => (Es[p] = Zeros /\ hs[p] = Zeros)
        /\ pc[p] = "rates" =>
              \A k \in 1 .. Len(SweepNs) :
                  /\ TimesWritten(p, SweepNs[k]) = 1
                  /\ hs[p][k] # Zero
                  /\ Es[p][k] = whole.vals[k]

\* C24 witness: the rates are about to be computed from an Es whose last
\* entry is a computed zero and whose first is not zero.
C24_Witness ==
    \E p \in Procs :
        /\ pc[p] = "rates"
        /\ Es[p][1] # Zero
        /\ Es[p][Len(SweepNs)] = Zero
        /\ whole.vals[Len(SweepNs)] = Zero
        /\ uh = uex

\* the collective calls rank p has made: its solver calls and the reductions
\* it has returned from
Collectives(p) == SelectSeq(log[p], LAMBDA e : e.op \in {"solve", "sample"})

\* the sweep is over on rank p
Over(p) == pc[p] \in {"done", "failed"}

\* C25: the ranks make the same collective calls in the same order, a rank
\* that waits in a reduction is waiting for ranks that have not yet called
\* it, and the sweep is eventually over on every rank.
C25_CollectivesMatch ==
    /\ [](\A p, q \in Procs :
             /\ IsPrefix(Collectives(p), Collectives(q))
                   \/ IsPrefix(Collectives(q), Collectives(p))
             /\ (Over(p) /\ Over(q)) => log[p] = log[q]
             /\ (pc[p] = "wait" /\ ~AllContributed(contrib)) =>
                   \E r \in Procs : pc[r] = "error")
    /\ <>[](\A p \in Procs : Over(p))

\* C25 witness: every rank has finished the sweep after waiting in
\* reductions.
C25_Witness ==
    /\ \A p \in Procs : pc[p] = "done"
    /\ DOMAIN contrib = Procs
    /\ cell = "inf"

(***************************************************************************)
(* em.ipynb: the physical markers of the surfaces and the materials set    *)
(* from them.  Lengths are in tenths, areas in units of pi / 100.  The     *)
(* state of the cell is kept in ret.                                       *)
(***************************************************************************)
\* r = 0.1, R = 5, a = 1, b = 1.2, c_1 = 0.8, c_2 = 1.4
r == 1
R == 50
a == 10
b == 12
c_1 == 8
c_2 == 14

\* N, the number of windings (8 in the notebook)
N == NumWindings

\* whole_domain[0]: the surfaces fragment() returns, in an order gmsh
\* chooses: the iron ring, the background cut by the ring into the disk
\* inside it and the ring outside it, N wires inside and N wires outside
whole_domain ==
    {[kind |-> k, i |-> 0] : k \in {"iron", "background_in", "background_out"}}
        \cup {[kind |-> k, i |-> i] : k \in {"wire_N", "wire_S"}, i \in 1 .. N}

\* gmsh.model.occ.getMass
getMass(domain) ==
    CASE domain.kind = "iron" -> (b * b) - (a * a)
      [] domain.kind = "background_in" -> (a * a) - (N * r * r)
      [] domain.kind = "background_out" -> ((R * R) - (b * b)) - (N * r * r)
      [] OTHER -> r * r

\* np.linalg.norm(gmsh.model.occ.getCenterOfMass(...)): the wires are
\* spread evenly over their circles, so the ring and both parts of the
\* background have their centre of mass at the origin
normOfCom(domain) ==
    CASE domain.kind = "wire_N" -> c_1
      [] domain.kind = "wire_S" -> c_2
      [] OTHER -> 0

\* gmsh.model.addPhysicalGroup(dim, surfaces, tag): a tag in use raises
addPhysicalGroup(st, surfaces, tag) ==
    IF tag \in DOMAIN st.groups THEN [st EXCEPT !.pc = "raised"]
    ELSE [st EXCEPT !.groups = [t \in DOMAIN st.groups \cup {tag} |->
                                   IF t = tag THEN surfaces ELSE st.groups[t]]]

\* inner_tag = 2
inner_tag_start == 2

\* the outer markers counted from 2 as the inner ones are
outer_tag_from_two == inner_tag_start

\* outer_tag = 2 + N
outer_tag_start == 2 + N

InitEm ==
    /\ SweepIdle
    /\ owner = MeshOwner
    /\ ghost = MeshGhost
    /\ uh = [d \in 1 .. NProcs |-> 0]
    /\ uex = [d \in 1 .. NProcs |-> 0]
    /\ arg = [fn |-> "em"]
    /\ ret = [fn |-> "markers", pc |-> "loop", todo |-> whole_domain,
              inner_tag |-> inner_tag_start, outer_tag |-> outer_tag_start,
              background_surfaces |-> {}, other_surfaces |-> {},
              groups |-> <<>>, mu |-> <<>>, J |-> <<>>]

\* the body of "for domain in whole_domain[0]" for the surface domain
Mark(st, domain) ==
    LET others == [st EXCEPT !.other_surfaces = @ \cup {domain}]
    IN IF getMass(domain) = (b * b) - (a * a)
       THEN addPhysicalGroup(others, {domain}, 1)
       ELSE IF normOfCom(domain) = 0
       THEN [st EXCEPT !.background_surfaces = @ \cup {domain}]
       ELSE IF normOfCom(domain) = c_1
       THEN [addPhysicalGroup(others, {domain}, st.inner_tag)
                EXCEPT !.inner_tag = @ + 1]
       ELSE IF normOfCom(domain) = c_2
       THEN [addPhysicalGroup(others, {domain}, st.outer_tag)
                EXCEPT !.outer_tag = @ + 1]
       ELSE st

EmStep(st) ==
    /\ arg.fn = "em"
    /\ ret' = st
    /\ UNCHANGED <<owner, ghost, uh, uex, cell, pc, deg, idx, Es, hs, rates,
                   contrib, printed, whole, arg, log>>

\* one pass of the loop
MarkDomain ==
    /\ ret.fn = "markers" /\ ret.pc = "loop"
    /\ \E domain \in ret.todo :
          EmStep([Mark(ret, domain) EXCEPT !.todo = @ \ {domain}])

\* gmsh.model.addPhysicalGroup(2, background_surfaces, tag=0)
AddVacuum ==
    /\ ret.fn = "markers" /\ ret.pc = "loop" /\ ret.todo = {}
    /\ EmStep(addPhysicalGroup([ret EXCEPT !.pc = "marked"],
                                ret.background_surfaces, 0))

\* mu_ of a tag
mu_(tag) == IF tag = 0 THEN "vacuum" ELSE IF tag = 1 THEN "iron" ELSE "copper"

\* J of a tag: J starts as 0
J_(tag) ==
    IF tag \in 2 .. ((2 + N) - 1) THEN 1
    ELSE IF tag \in (2 + N) .. (((2 * N) + 2) - 1) THEN 0 - 1
    ELSE 0

\* for tag in material_tags: mu and J on the cells of every tag
SetMaterials ==
    /\ ret.fn = "markers" /\ ret.pc = "marked"
    /\ EmStep([ret EXCEPT !.pc = "done",
                          !.mu = [t \in DOMAIN ret.groups |-> mu_(t)],
                          !.J = [t \in DOMAIN ret.groups |-> J_(t)]])

NextEm ==
    \/ MarkDomain
    \/ AddVacuum
    \/ SetMaterials

SpecEm == InitEm /\ [][NextEm]_vars

\* the surfaces marked so far
Marked == whole_domain \ ret.todo

\* the tags given so far to the surfaces of one kind
TagsOf(kind) ==
    {t \in DOMAIN ret.groups : \E d \in ret.groups[t] : d.kind = kind}

\* C28: the iron ring has marker 1; the inner wires marked so far have one
\* marker each, the markers 2, 3, ... in the order they were met, and the
\* outer wires likewise from N + 2; no marker is given twice.  After the
\* loop the vacuum (both parts of the background) has marker 0, the inner
\* markers are exactly 2 .. N+1 and the outer ones exactly N+2 .. 2N+1,
\* and the materials follow them: current 1 in the inner wires, -1 in the
\* outer wires, 0 elsewhere.
C28_Markers ==
    ret.fn = "markers" =>
        LET innerMarked == {d \in Marked : d.kind = "wire_N"}
            outerMarked == {d \in Marked : d.kind = "wire_S"}
        IN /\ ret.pc # "raised"
           /\ \A d \in Marked : d.kind = "iron" => ret.groups[1] = {d}
           /\ TagsOf("iron") \subseteq {1}
           /\ TagsOf("wire_N") = 2 .. (1 + Cardinality(innerMarked))
           /\ TagsOf("wire_S") = (N + 2) .. (N + 1 + Cardinality(outerMarked))
           /\ ret.inner_tag = 2 + Cardinality(innerMarked)
           /\ ret.outer_tag = N + 2 + Cardinality(outerMarked)
           /\ \A t \in DOMAIN ret.groups : t # 0 => Cardinality(ret.groups[t]) = 1
           /\ TagsOf("wire_N") \cap TagsOf("wire_S") = {}
           /\ ret.pc \in {"marked", "done"} =>
                 /\ ret.groups[0] = {d \in whole_domain :
                                        d.kind \in {"background_in", "background_out"}}
                 /\ TagsOf("wire_N") = 2 .. (N + 1)
                 /\ TagsOf("wire_S") = (N + 2) .. ((2 * N) + 1)
                 /\ DOMAIN ret.groups = 0 .. ((2 * N) + 1)
           /\ ret.pc = "done" =>
                 \A t \in DOMAIN ret.groups :
                     /\ ret.J[t] = (IF t \in TagsOf("wire_N") THEN 1
                                    ELSE IF t \in TagsOf("wire_S") THEN 0 - 1
                                    ELSE 0)
                     /\ (ret.mu[t] = "copper") = (t \in TagsOf("wire_N") \cup TagsOf("wire_S"))

\* C28 witness: all surfaces are marked and the materials set, the wires
\* having been met in another order than they were made.
C28_Witness ==
    /\ ret.fn = "markers" /\ ret.pc = "done"
    /\ ret.groups[2] = {[kind |-> "wire_N", i |-> N]}
    /\ ret.groups[N + 2] = {[kind |-> "wire_S", i |-> N]}
    /\ ret.J[2] = 1 /\ ret.J[N + 2] = 0 - 1
=============================================================================
